---- MODULE Spec2Model ----
(* Model of src/main.py: the Streamlit script of the classroom interaction   *)
(* analysis tool.  One action is one complete run of the script, triggered   *)
(* by one widget event (a file chosen or removed in the uploader, a button   *)
(* clicked, or a plain rerun).  The session state, the uploader widget and   *)
(* the temporary files on disk persist between runs.                         *)
EXTENDS Integers, Sequences, FiniteSets, TLC

\* ---------------------------------------------------------------- bounds
\* number of distinct names tempfile.NamedTemporaryFile can hand out
MaxTmp == 2
\* longest transcript text (in character tokens) the CSV export is tried on
MaxLen == 3

\* contents a user can upload: a lecture, a silent recording, and a video
\* container without any audio stream
Videos == {"lecA", "silent", "noaudio"}

\* ---------------------------------------------------------------- values
\* Python None in a slot that otherwise holds a path (a token sequence)
NoPath == <<>>
\* Python None in a slot that otherwise holds a string
PyNone == "None"

\* Python truthiness of a path-or-None value (None and '' are falsy)
TruthyPath(p) == p # NoPath
\* Python truthiness of a str-or-None value
TruthyStr(t) == t # PyNone /\ t # ""
\* Python `a or b` on path-or-None values
PyOr(a, b) == IF TruthyPath(a) THEN a ELSE b

\* str.replace(old, new) on a string held as a sequence of tokens: every
\* occurrence of the token old is replaced by the token sequence new
RECURSIVE Replace(_, _, _)
Replace(s, old, new) ==
    IF s = <<>> THEN <<>>
    ELSE (IF Head(s) = old THEN new ELSE <<Head(s)>>) \o Replace(Tail(s), old, new)

\* tmp_file.name of NamedTemporaryFile(delete=False, suffix='.mp4')
TmpPath(n) == <<"/tmp/tmp", ToString(n), ".mp4">>

\* ---------------------------------------------------------------- storage
\* the file system is a function from existing paths to file contents
FileExists(fs, p) == p \in DOMAIN fs
WriteFile(fs, p, c) == [q \in DOMAIN fs \cup {p} |-> IF q = p THEN c ELSE fs[q]]
Unlink(fs, p) == [q \in DOMAIN fs \ {p} |-> fs[q]]

\* the name NamedTemporaryFile picks: one whose file does not exist yet.
\* The script never looks inside the name, so the first unused one stands
\* for any of them.
FreshNames(fs) ==
    {n \in 1..MaxTmp : /\ ~FileExists(fs, TmpPath(n))
                       /\ \A k \in 1..(n - 1) : FileExists(fs, TmpPath(k))}

\* ---------------------------------------------------------------- stage functions
\* what Whisper hears in an audio file: it depends on the recording and on
\* whether the audio was denoised; a silent recording yields empty text
WhisperText(c) ==
    CASE c.video = "lecA" /\ c.kind = "audio" -> "lecture A (raw)"
      [] c.video = "lecA" /\ c.kind = "clean" -> "lecture A (clean)"
      [] OTHER -> ""

\* extract_audio_from_video: envOk is FALSE when the library raises for a
\* reason outside the program (codec, disk); a missing file or a video with
\* no audio stream (video.audio is None) always raises
extract_audio_from_video(fs, video_path, output_audio_path, envOk) ==
    IF envOk /\ FileExists(fs, video_path)
             /\ fs[video_path].kind = "video"
             /\ fs[video_path].video # "noaudio"
    THEN [ret |-> TRUE,
          fs  |-> WriteFile(fs, output_audio_path,
                            [video |-> fs[video_path].video, kind |-> "audio"])]
    ELSE [ret |-> FALSE, fs |-> fs]

\* remove_noise_from_audio
remove_noise_from_audio(fs, input_audio_path, output_audio_path, envOk) ==
    IF envOk /\ FileExists(fs, input_audio_path)
             /\ fs[input_audio_path].kind \in {"audio", "clean"}
    THEN [ret |-> TRUE,
          fs  |-> WriteFile(fs, output_audio_path,
                            [video |-> fs[input_audio_path].video, kind |-> "clean"])]
    ELSE [ret |-> FALSE, fs |-> fs]

\* transcribe_audio: the text, or None when Whisper raises
transcribe_audio(fs, audio_path, envOk) ==
    IF envOk /\ FileExists(fs, audio_path)
             /\ fs[audio_path].kind \in {"audio", "clean"}
    THEN WhisperText(fs[audio_path])
    ELSE PyNone

\* ---------------------------------------------------------------- state
VARIABLES
    processed_video,   \* st.session_state.processed_video
    extracted_audio,   \* st.session_state.extracted_audio
    cleaned_audio,     \* st.session_state.cleaned_audio
    transcript,        \* st.session_state.transcript
    uploaded_file,     \* value of the file_uploader widget (content or None)
    files,             \* temporary files on disk: path -> content
    rendered,          \* buttons the last run of the script rendered
    last_event,        \* the widget event that triggered the last run
    last_call,         \* the stage function the last run called, if any
    downloads,         \* data behind the transcript download buttons on the page
    messages,          \* status messages the last run displayed
    unlink_errors,     \* paths whose os.unlink raised in the last run
    transcript_text,   \* CSV export alone: the characters of the transcript
    csv_data           \* CSV export alone: the output of to_csv, once made

vars == <<processed_video, extracted_audio, cleaned_audio, transcript,
          uploaded_file, files, rendered, last_event, last_call, downloads,
          messages, unlink_errors, transcript_text, csv_data>>

NoCall == [fn |-> "none", arg |-> NoPath, out |-> NoPath, ret |-> PyNone,
           pre |-> [pv |-> NoPath, ea |-> NoPath, ca |-> NoPath, tr |-> ""]]

\* the session fields of a run record, as seen by a stage call
Snapshot(s) == [pv |-> s.pv, ea |-> s.ea, ca |-> s.ca, tr |-> s.tr]

\* ---------------------------------------------------------------- the script
\* A run of the script threads a record through its sections:
\*   pv, ea, ca, tr : the four session fields;  fs : the files on disk;
\*   rendered : buttons rendered so far;  call : the stage call made;
\*   downloads : the data handed to the transcript download buttons;
\*   unlink_errors : the paths whose deletion raised;
\*   aborted : an uncaught exception stopped the run.
RunStart ==
    [pv |-> processed_video, ea |-> extracted_audio, ca |-> cleaned_audio,
     tr |-> transcript, fs |-> files, rendered |-> {}, call |-> NoCall,
     downloads |-> <<>>, unlink_errors |-> {}, aborted |-> FALSE]

\* Step 1: while the uploader holds a file, every run copies it into a new
\* temporary file named n and points processed_video at it
UploadStep(s, up, n) ==
    IF up # PyNone
    THEN [s EXCEPT !.fs = WriteFile(s.fs, TmpPath(n), [video |-> up, kind |-> "video"]),
                   !.pv = TmpPath(n)]
    ELSE s

\* ExtractStep with the result check lost: extracted_audio is stored even
\* when extract_audio_from_video returned False
ExtractStep_ignoreResult(s, clicked, envOk) ==
    IF s.aborted THEN s
    ELSE IF TruthyPath(s.pv)
    THEN LET r1 == [s EXCEPT !.rendered = @ \cup {"extract"}]
             audio_path == Replace(s.pv, ".mp4", <<".wav">>)
             res == extract_audio_from_video(s.fs, s.pv, audio_path, envOk)
             r2 == [r1 EXCEPT !.fs = res.fs,
                              !.call = [fn |-> "extract", arg |-> s.pv,
                                        out |-> audio_path,
                                        ret |-> IF res.ret THEN "True" ELSE "False",
                                        pre |-> Snapshot(s)]]
         IN  IF ~clicked THEN r1
             ELSE [r2 EXCEPT !.ea = audio_path]
    ELSE s

\* Step 2: the extract button is rendered only while processed_video is set
ExtractStep(s, clicked, envOk) ==
    IF s.aborted THEN s
    ELSE IF TruthyPath(s.pv)
    THEN LET r1 == [s EXCEPT !.rendered = @ \cup {"extract"}]
             audio_path == Replace(s.pv, ".mp4", <<".wav">>)
             res == extract_audio_from_video(s.fs, s.pv, audio_path, envOk)
             r2 == [r1 EXCEPT !.fs = res.fs,
                              !.call = [fn |-> "extract", arg |-> s.pv,
                                        out |-> audio_path,
                                        ret |-> IF res.ret THEN "True" ELSE "False",
                                        pre |-> Snapshot(s)]]
         IN  IF ~clicked THEN r1
             ELSE IF res.ret THEN [r2 EXCEPT !.ea = audio_path]
             ELSE r2
    ELSE s

\* DenoiseStep gated on the wrong field: the button is offered as soon as a
\* video is uploaded
DenoiseStep_gateOnVideo(s, clicked, envOk) ==
    IF s.aborted THEN s
    ELSE IF TruthyPath(s.pv)
    THEN LET r1 == [s EXCEPT !.rendered = @ \cup {"denoise"}]
             cleaned_audio_path == Replace(s.ea, ".wav", <<"_clean", ".wav">>)
             res == remove_noise_from_audio(s.fs, s.ea, cleaned_audio_path, envOk)
             r2 == [r1 EXCEPT !.fs = res.fs,
                              !.call = [fn |-> "denoise", arg |-> s.ea,
                                        out |-> cleaned_audio_path,
                                        ret |-> IF res.ret THEN "True" ELSE "False",
                                        pre |-> Snapshot(s)]]
         IN  IF ~clicked THEN r1
             ELSE IF res.ret THEN [r2 EXCEPT !.ca = cleaned_audio_path]
             ELSE r2
    ELSE s

\* DenoiseStep with the path derivation lost: the cleaned audio is written
\* to the path of the extracted audio
DenoiseStep_samePath(s, clicked, envOk) ==
    IF s.aborted THEN s
    ELSE IF TruthyPath(s.ea)
    THEN LET r1 == [s EXCEPT !.rendered = @ \cup {"denoise"}]
             cleaned_audio_path == s.ea
             res == remove_noise_from_audio(s.fs, s.ea, cleaned_audio_path, envOk)
             r2 == [r1 EXCEPT !.fs = res.fs,
                              !.call = [fn |-> "denoise", arg |-> s.ea,
                                        out |-> cleaned_audio_path,
                                        ret |-> IF res.ret THEN "True" ELSE "False",
                                        pre |-> Snapshot(s)]]
         IN  IF ~clicked THEN r1
             ELSE IF res.ret THEN [r2 EXCEPT !.ca = cleaned_audio_path]
             ELSE r2
    ELSE s

\* Step 3: the denoise button is rendered only while extracted_audio is set
DenoiseStep(s, clicked, envOk) ==
    IF s.aborted THEN s
    ELSE IF TruthyPath(s.ea)
    THEN LET r1 == [s EXCEPT !.rendered = @ \cup {"denoise"}]
             cleaned_audio_path == Replace(s.ea, ".wav", <<"_clean", ".wav">>)
             res == remove_noise_from_audio(s.fs, s.ea, cleaned_audio_path, envOk)
             r2 == [r1 EXCEPT !.fs = res.fs,
                              !.call = [fn |-> "denoise", arg |-> s.ea,
                                        out |-> cleaned_audio_path,
                                        ret |-> IF res.ret THEN "True" ELSE "False",
                                        pre |-> Snapshot(s)]]
         IN  IF ~clicked THEN r1
             ELSE IF res.ret THEN [r2 EXCEPT !.ca = cleaned_audio_path]
             ELSE r2
    ELSE s

\* the cleaned audio preview opens the file; a missing file raises and
\* stops the run
CleanedPreviewStep(s) ==
    IF s.aborted THEN s
    ELSE IF TruthyPath(s.ca)
    THEN IF FileExists(s.fs, s.ca)
         THEN [s EXCEPT !.rendered = @ \cup {"download_clean"}]
         ELSE [s EXCEPT !.aborted = TRUE]
    ELSE s

\* audio_for_transcription with the operands of `or` swapped
audio_for_transcription_rawFirst(s) == PyOr(s.ea, s.ca)

\* the audio handed to Whisper: cleaned_audio or extracted_audio
audio_for_transcription(s) == PyOr(s.ca, s.ea)

\* TranscribeStep with the result kept in the local variable only: the
\* session transcript is never assigned
TranscribeStep_dropResult(s, clicked, envOk) ==
    IF s.aborted THEN s
    ELSE IF TruthyPath(audio_for_transcription(s))
    THEN LET r1 == [s EXCEPT !.rendered = @ \cup {"transcribe"}]
             text == transcribe_audio(s.fs, audio_for_transcription(s), envOk)
             r2 == [r1 EXCEPT !.call = [fn |-> "transcribe",
                                        arg |-> audio_for_transcription(s),
                                        out |-> NoPath, ret |-> text,
                                        pre |-> Snapshot(s)]]
         IN  IF ~clicked THEN r1 ELSE r2
    ELSE s

\* Step 4: the transcribe button is rendered while some audio is set; the
\* result is stored only when it is truthy
TranscribeStep(s, clicked, envOk) ==
    IF s.aborted THEN s
    ELSE IF TruthyPath(audio_for_transcription(s))
    THEN LET r1 == [s EXCEPT !.rendered = @ \cup {"transcribe"}]
             text == transcribe_audio(s.fs, audio_for_transcription(s), envOk)
             r2 == [r1 EXCEPT !.call = [fn |-> "transcribe",
                                        arg |-> audio_for_transcription(s),
                                        out |-> NoPath, ret |-> text,
                                        pre |-> Snapshot(s)]]
         IN  IF ~clicked THEN r1
             ELSE IF TruthyStr(text) THEN [r2 EXCEPT !.tr = text]
             ELSE r2
    ELSE s

\* ---------------------------------------------------------------- CSV
\* A text is a sequence of character tokens.  The characters that matter to
\* CSV are the delimiter, the quote and the line terminator; any other token
\* stands for a run of ordinary characters.
CsvSpecial == {",", "\"", "\n"}

\* the characters of a transcript Whisper produces in this model: one run
\* of ordinary characters
Chars(text) == <<text>>

\* a quote inside a quoted field is written twice
RECURSIVE CsvEscape(_)
CsvEscape(f) ==
    IF f = <<>> THEN <<>>
    ELSE (IF Head(f) = "\"" THEN <<"\"", "\"">> ELSE <<Head(f)>>) \o CsvEscape(Tail(f))

\* CsvField with the quoting lost: every field is written as it is
CsvField_noQuote(f) == f

\* one field as the csv writer emits it (minimal quoting): quoted only when
\* it contains a delimiter, a quote or a line terminator
CsvField(f) ==
    IF \E i \in 1..Len(f) : f[i] \in CsvSpecial
    THEN <<"\"">> \o CsvEscape(f) \o <<"\"">>
    ELSE f

\* one line: the fields separated by commas, then the line terminator
RECURSIVE CsvLine(_)
CsvLine(fields) ==
    IF Len(fields) = 1 THEN CsvField(fields[1]) \o <<"\n">>
    ELSE CsvField(Head(fields)) \o <<",">> \o CsvLine(Tail(fields))

RECURSIVE CsvLines(_)
CsvLines(rows) ==
    IF rows = <<>> THEN <<>> ELSE CsvLine(Head(rows)) \o CsvLines(Tail(rows))

\* DataFrame.to_csv(index=False): the header line, then one line per row
to_csv(frame) == CsvLine(frame.columns) \o CsvLines(frame.rows)

\* the one-row DataFrame built from the transcript
transcript_data(text) ==
    [columns |-> << <<"Timestamp">>, <<"Speaker">>, <<"Text">> >>,
     rows    |-> << << <<"Full Recording">>, <<"Unknown">>, text >> >>]

\* the transcript area and both transcript downloads are rendered only
\* while the transcript is truthy; the CSV button carries csv_data, the TXT
\* button the transcript itself
TranscriptStep(s) ==
    IF s.aborted THEN s
    ELSE IF TruthyStr(s.tr)
    THEN [s EXCEPT !.rendered = @ \cup {"download_csv", "download_txt"},
                   !.downloads = [csv |-> to_csv(transcript_data(Chars(s.tr))),
                                  txt |-> s.tr]]
    ELSE s

\* the clean-up loop of Clear All Data: paths is the list of the three
\* session paths, fails the positions (counted from the end of the list)
\* whose os.unlink raises; the exception is passed over
RECURSIVE CleanupFiles(_, _, _)
CleanupFiles(fs, paths, fails) ==
    IF paths = <<>> THEN fs
    ELSE LET file_path == Head(paths)
             fs1 == IF TruthyPath(file_path) /\ FileExists(fs, file_path)
                       /\ Len(paths) \notin fails
                    THEN Unlink(fs, file_path)
                    ELSE fs
         IN  CleanupFiles(fs1, Tail(paths), fails)

\* the paths on which os.unlink raised during the clean-up loop
RECURSIVE CleanupErrors(_, _, _)
CleanupErrors(fs, paths, fails) ==
    IF paths = <<>> THEN {}
    ELSE LET file_path == Head(paths)
             tried == TruthyPath(file_path) /\ FileExists(fs, file_path)
             fs1 == IF tried /\ Len(paths) \notin fails THEN Unlink(fs, file_path) ELSE fs
         IN  (IF tried /\ Len(paths) \in fails THEN {file_path} ELSE {})
                \cup CleanupErrors(fs1, Tail(paths), fails)

\* ClearStep with the reset of the session fields lost: the files are
\* deleted but the fields keep pointing at them
ClearStep_keepFields(s, clicked, fails) ==
    IF s.aborted THEN s
    ELSE LET r1 == [s EXCEPT !.rendered = @ \cup {"clear"}]
         IN  IF clicked
             THEN [r1 EXCEPT !.fs = CleanupFiles(s.fs, <<s.pv, s.ea, s.ca>>, fails),
                             !.unlink_errors =
                                 CleanupErrors(s.fs, <<s.pv, s.ea, s.ca>>, fails)]
             ELSE r1

\* Clear All Data: always rendered; when clicked, deletes the files the
\* session references and resets the four session fields
ClearStep(s, clicked, fails) ==
    IF s.aborted THEN s
    ELSE LET r1 == [s EXCEPT !.rendered = @ \cup {"clear"}]
         IN  IF clicked
             THEN [r1 EXCEPT !.fs = CleanupFiles(s.fs, <<s.pv, s.ea, s.ca>>, fails),
                             !.unlink_errors =
                                 CleanupErrors(s.fs, <<s.pv, s.ea, s.ca>>, fails),
                             !.pv = NoPath, !.ea = NoPath, !.ca = NoPath, !.tr = ""]
             ELSE r1

\* one complete run of the script, top to bottom
Script(event, up, n, envOk, fails) ==
    LET s1 == UploadStep(RunStart, up, n)
        s2 == ExtractStep(s1, event = "extract", envOk)
        s3 == DenoiseStep(s2, event = "denoise", envOk)
        s4 == CleanedPreviewStep(s3)
        s5 == TranscribeStep(s4, event = "transcribe", envOk)
        s6 == TranscriptStep(s5)
    IN  ClearStep(s6, event = "clear", fails)

\* the st.success / st.error messages a finished run has displayed: s is
\* the run record at the end of the script.  No statement of the script
\* displays a warning.
StatusMessages(event, up, s) ==
    (IF up # PyNone
     THEN {[level |-> "success", text |-> "Video uploaded successfully!"]} ELSE {})
    \cup (IF s.call.fn = "extract"
          THEN IF s.call.ret = "True"
               THEN {[level |-> "success", text |-> "Audio extracted successfully!"]}
               ELSE {[level |-> "error", text |-> "Error extracting audio"]}
          ELSE {})
    \cup (IF s.call.fn = "denoise"
          THEN IF s.call.ret = "True"
               THEN {[level |-> "success", text |-> "Noise removed successfully!"]}
               ELSE {[level |-> "error", text |-> "Error removing noise"]}
          ELSE {})
    \cup (IF s.call.fn = "transcribe"
          THEN IF s.call.ret = PyNone
               THEN {[level |-> "error", text |-> "Error transcribing audio"]}
               ELSE IF TruthyStr(s.call.ret)
               THEN {[level |-> "success", text |-> "Transcript generated successfully!"]}
               ELSE {}
          ELSE {})
    \cup (IF event = "clear" /\ ~s.aborted
          THEN {[level |-> "success", text |-> "All data cleared!"]} ELSE {})

\* the run's effect on the persistent state
Commit(event, up, s) ==
    /\ processed_video' = s.pv
    /\ extracted_audio' = s.ea
    /\ cleaned_audio' = s.ca
    /\ transcript' = s.tr
    /\ files' = s.fs
    /\ rendered' = s.rendered
    /\ last_call' = s.call
    /\ downloads' = s.downloads
    /\ messages' = StatusMessages(event, up, s)
    /\ unlink_errors' = s.unlink_errors
    /\ uploaded_file' = up
    /\ UNCHANGED <<transcript_text, csv_data>>
    /\ last_event' = event

\* a run triggered by event with the uploader holding up: it needs a fresh
\* temporary name exactly when the uploader holds a file
Run(event, up, envOk, fails) ==
    IF up = PyNone
    THEN Commit(event, up, Script(event, up, 0, envOk, fails))
    ELSE \E n \in FreshNames(files) :
            Commit(event, up, Script(event, up, n, envOk, fails))

\* ---------------------------------------------------------------- actions
\* the session after its initialisation and the first run, with nothing
\* uploaded
SessionInit ==
    /\ processed_video = NoPath
    /\ extracted_audio = NoPath
    /\ cleaned_audio = NoPath
    /\ transcript = ""
    /\ uploaded_file = PyNone
    /\ files = <<>>
    /\ rendered = {"clear"}
    /\ last_event = "start"
    /\ last_call = NoCall
    /\ downloads = <<>>
    /\ messages = {}
    /\ unlink_errors = {}

Init == SessionInit /\ transcript_text = <<>> /\ csv_data = <<>>

\* the user picks (or replaces) a file in the uploader
ChooseFile == \E v \in Videos : Run("upload", v, TRUE, {})

\* the user removes the file from the uploader
RemoveFile == uploaded_file # PyNone /\ Run("remove", PyNone, TRUE, {})

\* the user clicks a stage button that the last run rendered
ClickExtract ==
    "extract" \in rendered /\ \E ok \in BOOLEAN : Run("extract", uploaded_file, ok, {})

ClickDenoise ==
    "denoise" \in rendered /\ \E ok \in BOOLEAN : Run("denoise", uploaded_file, ok, {})

ClickTranscribe ==
    "transcribe" \in rendered /\ \E ok \in BOOLEAN : Run("transcribe", uploaded_file, ok, {})

\* the user clicks Clear All Data; any of the three deletions may fail
ClickClear ==
    "clear" \in rendered /\ \E fails \in SUBSET (1..3) : Run("clear", uploaded_file, TRUE, fails)

\* the script reruns with no button pressed (a download button, a manual
\* rerun, a browser refresh of the widgets)
Rerun == Run("rerun", uploaded_file, TRUE, {})

Next ==
    \/ ChooseFile
    \/ RemoveFile
    \/ ClickExtract
    \/ ClickDenoise
    \/ ClickTranscribe
    \/ ClickClear
    \/ Rerun

Spec == Init /\ [][Next]_vars

\* ---------------------------------------------------------------- CSV export alone
\* The CSV formatting is a pure function of the transcript text.  This
\* specification applies it to every non-empty text of up to MaxLen
\* character tokens (the export is built only for a truthy transcript).
Alphabet == {"a", ",", "\"", "\n"}

Texts == UNION {[1..n -> Alphabet] : n \in 1..MaxLen}

CsvInit == SessionInit /\ transcript_text \in Texts /\ csv_data = <<>>

\* csv_data = transcript_data.to_csv(index=False)
ExportCsv ==
    /\ csv_data = <<>>
    /\ csv_data' = to_csv(transcript_data(transcript_text))
    /\ UNCHANGED <<processed_video, extracted_audio, cleaned_audio, transcript,
                   uploaded_file, files, rendered, last_event, last_call,
                   downloads, messages, unlink_errors, transcript_text>>

CsvNext == ExportCsv

CsvSpec == CsvInit /\ [][CsvNext]_vars

\* reading a CSV document back (RFC 4180, as a spreadsheet or csv.reader
\* does): the rows, each a sequence of fields, each a sequence of tokens.
\* i is the position in s, inQuotes whether a quoted field is open, field
\* and row what has been read of the current field and row.
RECURSIVE ReadCsv(_, _, _, _, _, _)
ReadCsv(s, i, inQuotes, field, row, rows) ==
    IF i > Len(s)
    THEN IF field = <<>> /\ row = <<>> THEN rows
         ELSE Append(rows, Append(row, field))
    ELSE IF inQuotes
    THEN IF s[i] = "\""
         THEN IF i < Len(s) /\ s[i + 1] = "\""
              THEN ReadCsv(s, i + 2, TRUE, Append(field, "\""), row, rows)
              ELSE ReadCsv(s, i + 1, FALSE, field, row, rows)
         ELSE ReadCsv(s, i + 1, TRUE, Append(field, s[i]), row, rows)
    ELSE IF s[i] = "\"" THEN ReadCsv(s, i + 1, TRUE, field, row, rows)
    ELSE IF s[i] = "," THEN ReadCsv(s, i + 1, FALSE, <<>>, Append(row, field), rows)
    ELSE IF s[i] = "\n"
    THEN ReadCsv(s, i + 1, FALSE, <<>>, <<>>, Append(rows, Append(row, field)))
    ELSE ReadCsv(s, i + 1, FALSE, Append(field, s[i]), row, rows)

ParseCsv(s) == ReadCsv(s, 1, FALSE, <<>>, <<>>, <<>>)

\* ---------------------------------------------------------------- typing
Paths ==
    UNION {{<<"/tmp/tmp", ToString(n), ".mp4">>, <<"/tmp/tmp", ToString(n), ".wav">>,
            <<"/tmp/tmp", ToString(n), "_clean", ".wav">>} : n \in 1..MaxTmp}

TypeOK ==
    /\ processed_video \in Paths \cup {NoPath}
    /\ extracted_audio \in Paths \cup {NoPath}
    /\ cleaned_audio \in Paths \cup {NoPath}
    /\ uploaded_file \in Videos \cup {PyNone}
    /\ DOMAIN files \subseteq Paths
    /\ rendered \subseteq {"extract", "denoise", "transcribe", "clear",
                           "download_clean", "download_csv", "download_txt"}

\* ---------------------------------------------------------------- pipeline state
\* the stage the progress summary shows for a set of session fields
PipelineState(pv, ea, ca, tr) ==
    IF TruthyStr(tr) THEN "Transcribed"
    ELSE IF TruthyPath(ca) THEN "NoiseRemoved"
    ELSE IF TruthyPath(ea) THEN "AudioExtracted"
    ELSE IF TruthyPath(pv) THEN "VideoUploaded"
    ELSE "Empty"

\* the last run clicked a stage button and reached the stage function
StageCalled == last_event \in {"extract", "denoise", "transcribe"} /\ last_call.fn = last_event
\* ... and the stage function reported failure (False, or None for Whisper)
StageFailed == StageCalled /\ last_call.ret \in {"False", PyNone}
\* ... and the stage function reported success
StageSucceeded == StageCalled /\ last_call.ret = "True"

\* the video files on disk
VideoFiles == {p \in DOMAIN files : files[p].kind = "video"}

\* ---------------------------------------------------------------- claims

\* C1: no stage is skipped.  A stage function is only called while its input
\* field is set (extract: processed_video; denoise: extracted_audio;
\* transcribe: extracted_audio or cleaned_audio), and in every reachable
\* state cleaned_audio set implies extracted_audio set, extracted_audio set
\* implies processed_video set, and a non-empty transcript implies
\* extracted_audio set.
C1_NoSkippedStage ==
    /\ TruthyPath(cleaned_audio) => TruthyPath(extracted_audio)
    /\ TruthyPath(extracted_audio) => TruthyPath(processed_video)
    /\ TruthyStr(transcript) => TruthyPath(extracted_audio)
    /\ last_call.fn = "extract" =>
          TruthyPath(last_call.pre.pv) /\ last_call.arg = last_call.pre.pv
    /\ last_call.fn = "denoise" =>
          TruthyPath(last_call.pre.ea) /\ last_call.arg = last_call.pre.ea
    /\ last_call.fn = "transcribe" =>
          /\ TruthyPath(last_call.pre.ea) \/ TruthyPath(last_call.pre.ca)
          /\ last_call.arg \in {last_call.pre.ea, last_call.pre.ca}
          /\ TruthyPath(last_call.arg)

\* C1 witness: all four stages have run in order and the last run transcribed
C1_Witness ==
    /\ last_call.fn = "transcribe"
    /\ TruthyStr(transcript)
    /\ TruthyPath(cleaned_audio)
    /\ TruthyPath(extracted_audio)
    /\ TruthyPath(processed_video)

\* C2 (as claimed): whenever a transcript is present it is the transcription
\* of the audio the session currently holds (cleaned if present, otherwise
\* extracted), and that audio was derived from the currently held video.
C2_TranscriptMatchesCurrentAudio ==
    TruthyStr(transcript) =>
        LET a == PyOr(cleaned_audio, extracted_audio)
        IN  /\ FileExists(files, a)
            /\ transcript = WhisperText(files[a])
            /\ FileExists(files, processed_video)
            /\ files[a].video = files[processed_video].video

\* C3 (as claimed): after an upload, extracted_audio, cleaned_audio and
\* transcript are all absent.
C3_UploadInvalidatesDerived ==
    last_event = "upload" =>
        /\ extracted_audio = NoPath
        /\ cleaned_audio = NoPath
        /\ transcript = ""

\* C4 (as claimed): after Clear All Data the four session fields are reset
\* and no temporary file created during the session is left on disk.
C4_ResetRetainsNothing ==
    last_event = "clear" =>
        /\ processed_video = NoPath
        /\ extracted_audio = NoPath
        /\ cleaned_audio = NoPath
        /\ transcript = ""
        /\ DOMAIN files = {}

\* C5: a run whose stage function fails leaves extracted_audio, cleaned_audio
\* and transcript exactly as they were, stays in the pipeline state the stage
\* was attempted in, and renders the same stage button again for a retry.
C5_FailureLeavesStateUnchanged ==
    [][StageFailed' =>
          /\ extracted_audio' = extracted_audio
          /\ cleaned_audio' = cleaned_audio
          /\ transcript' = transcript
          /\ processed_video' = last_call'.pre.pv
          /\ PipelineState(processed_video', extracted_audio', cleaned_audio', transcript')
               = PipelineState(last_call'.pre.pv, last_call'.pre.ea,
                               last_call'.pre.ca, last_call'.pre.tr)
          /\ last_event' \in rendered']_vars

\* C5 witness: the first extraction of a video without an audio stream has
\* failed; the session is still VideoUploaded with no audio
C5_Witness ==
    /\ StageFailed
    /\ last_call.fn = "extract"
    /\ FileExists(files, last_call.arg)
    /\ files[last_call.arg].video = "noaudio"
    /\ extracted_audio = NoPath
    /\ PipelineState(processed_video, extracted_audio, cleaned_audio, transcript)
         = "VideoUploaded"

\* C6: the transcription routine is called with the cleaned audio path
\* whenever cleaned_audio is set, and with the extracted audio path only
\* when cleaned_audio is absent.
C6_TranscribePrefersCleaned ==
    last_call.fn = "transcribe" =>
        /\ TruthyPath(last_call.pre.ca) => last_call.arg = last_call.pre.ca
        /\ last_call.arg = last_call.pre.ea =>
              ~TruthyPath(last_call.pre.ca) \/ last_call.pre.ca = last_call.pre.ea

\* C6 witness: Whisper was called while both audio fields were set
C6_Witness ==
    /\ last_call.fn = "transcribe"
    /\ TruthyPath(last_call.pre.ca)
    /\ TruthyPath(last_call.pre.ea)
    /\ last_call.pre.ca # last_call.pre.ea

\* C7 (as claimed): after a successful extract, cleaned_audio is absent and
\* the transcript is empty.
C7_ExtractReleasesDownstream ==
    (StageSucceeded /\ last_event = "extract") =>
        cleaned_audio = NoPath /\ transcript = ""

\* C8 (as claimed): after a successful denoise the transcript is absent.
C8_DenoiseInvalidatesTranscript ==
    (StageSucceeded /\ last_event = "denoise") => transcript = ""

\* C9 (as claimed): after an upload the only video file on disk is the one
\* the session references; the file of a replaced video has been deleted.
C9_UploadReleasesPriorVideo ==
    last_event = "upload" => VideoFiles \subseteq {processed_video}

\* C10 (as claimed): a rerun with the same file still in the uploader and no
\* button clicked leaves the four session fields unchanged and creates no
\* new file.
C10_RerunIdempotent ==
    [][(last_event' = "rerun" /\ uploaded_file # PyNone) =>
          /\ processed_video' = processed_video
          /\ extracted_audio' = extracted_audio
          /\ cleaned_audio' = cleaned_audio
          /\ transcript' = transcript
          /\ files' = files]_vars

\* the transcript exports the page offers: download buttons the last run
\* rendered
ExportsOffered == rendered \cap {"download_csv", "download_txt"}

\* C11 (as claimed): a transcript export can be obtained only while a
\* transcript is set; in a state without one (after reset included) the
\* page offers neither the CSV nor the plaintext download.
C11_ExportOnlyWithTranscript ==
    ~TruthyStr(transcript) => (ExportsOffered = {} /\ downloads = <<>>)

\* C13: the happy path runs in order.  A successful extract in VideoUploaded
\* gives AudioExtracted (video and audio set, cleaned absent), a successful
\* denoise there gives NoiseRemoved, a successful transcribe with non-empty
\* text there gives Transcribed, and the plaintext download of that run is
\* exactly the text the transcription routine returned.
C13_HappyPath ==
    LET pre == last_call.pre
        before == PipelineState(pre.pv, pre.ea, pre.ca, pre.tr)
        after == PipelineState(processed_video, extracted_audio, cleaned_audio, transcript)
    IN  /\ (StageSucceeded /\ last_event = "extract" /\ before = "VideoUploaded") =>
              /\ after = "AudioExtracted"
              /\ TruthyPath(processed_video) /\ TruthyPath(extracted_audio)
              /\ ~TruthyPath(cleaned_audio)
        /\ (StageSucceeded /\ last_event = "denoise" /\ before = "AudioExtracted") =>
              after = "NoiseRemoved" /\ TruthyPath(cleaned_audio)
        /\ (StageCalled /\ last_event = "transcribe" /\ TruthyStr(last_call.ret)
               /\ before = "NoiseRemoved") =>
              /\ after = "Transcribed"
              /\ "download_txt" \in rendered
              /\ downloads.txt = last_call.ret
              /\ transcript = last_call.ret

\* C13 witness: upload, extract, denoise and transcribe have each succeeded
\* in turn and the plaintext download carries the text of the cleaned audio
C13_Witness ==
    /\ StageCalled /\ last_event = "transcribe"
    /\ last_call.pre.tr = ""
    /\ TruthyPath(last_call.pre.ca)
    /\ last_call.ret = "lecture A (clean)"
    /\ "download_txt" \in rendered
    /\ downloads.txt = "lecture A (clean)"

\* C12: for every transcript text t the CSV export reads back as the header
\* Timestamp, Speaker, Text followed by exactly one data row with
\* Timestamp = "Full Recording", Speaker = "Unknown" and Text = t, the whole
\* text.
C12_CsvOneRow ==
    csv_data # <<>> =>
        ParseCsv(csv_data) =
            << << <<"Timestamp">>, <<"Speaker">>, <<"Text">> >>,
               << <<"Full Recording">>, <<"Unknown">>, transcript_text >> >>

\* C12 witness: a text with a comma, a quote and a line break was exported
C12_Witness ==
    /\ csv_data # <<>>
    /\ \E i \in 1..Len(transcript_text) : transcript_text[i] = ","
    /\ \E i \in 1..Len(transcript_text) : transcript_text[i] = "\""
    /\ \E i \in 1..Len(transcript_text) : transcript_text[i] = "\n"

\* the session holds nothing: the four fields are as after initialisation
SessionEmpty ==
    /\ processed_video = NoPath
    /\ extracted_audio = NoPath
    /\ cleaned_audio = NoPath
    /\ transcript = ""

\* C14: release is idempotent.  Every Clear All Data run completes (the
\* handler is reached and the fields are reset, nothing is raised); the
\* clean-up of a path whose file is already gone, or of no path at all,
\* leaves storage as it is; and a reset that directly follows a reset
\* changes no file the first one left behind (with nothing in the uploader
\* storage is exactly the same).
C14_ReleaseIdempotent ==
    [][last_event' = "clear" =>
          /\ "clear" \in rendered'
          /\ SessionEmpty'
          /\ \A p \in (Paths \ DOMAIN files) \cup {NoPath} :
                CleanupFiles(files, <<p, p, NoPath>>, {}) = files
          /\ last_event = "clear" =>
                /\ \A p \in DOMAIN files : FileExists(files', p) /\ files'[p] = files[p]
                /\ uploaded_file = PyNone => files' = files]_vars

\* C14 witness: Clear All Data has run on a session that was already empty,
\* with nothing in the uploader, while files of an earlier reset whose
\* deletions failed are still on disk
C14_Witness ==
    /\ last_event = "clear"
    /\ rendered = {"clear"}
    /\ uploaded_file = PyNone
    /\ DOMAIN files # {}
    /\ SessionEmpty

\* C15 (as claimed): a transcription that completes without failing is
\* stored, whatever its text: afterwards the session transcript equals the
\* text returned, empty text included.
C15_SuccessfulTranscriptStored ==
    (StageCalled /\ last_event = "transcribe" /\ last_call.ret # PyNone) =>
        transcript = last_call.ret

\* C18 (as claimed): an empty session stays empty, with no stage button
\* offered by the run, on every run that is not triggered by a new upload,
\* also while the uploader still holds the file chosen earlier.
C18_ResetStable ==
    [][(SessionEmpty /\ last_event' # "upload") =>
          /\ SessionEmpty'
          /\ rendered' \cap {"extract", "denoise", "transcribe"} = {}]_vars

\* C16 (as claimed): a deletion that fails during reset does not block the
\* reset (the fields are reset all the same) and is not swallowed: whenever
\* an os.unlink raised, the run displays a warning or an error about it.
C16_ReleaseFailuresSurfaced ==
    last_event = "clear" =>
        /\ SessionEmpty
        /\ unlink_errors # {} =>
              \E m \in messages : m.level \in {"warning", "error"}

\* C17: a successful extract or denoise writes exactly one file, its own
\* output, at a path distinct from the video path, from the stage's input
\* and from the other audio path; every other file that existed before the
\* run is unmodified (the only other new file is the copy the upload step
\* of the same run made), the video and the stage's input keep their
\* content, and of the session fields the stage handler sees only its own
\* output field changes.
C17_StageFrame ==
    [][(StageSucceeded' /\ last_event' \in {"extract", "denoise"}) =>
          LET c == last_call'
          IN  /\ c.out # c.arg
              /\ c.out # c.pre.pv
              /\ last_event' = "extract" => c.out # c.pre.ca
              /\ last_event' = "denoise" => c.out # c.pre.ea
              /\ FileExists(files', c.out)
              /\ \A p \in DOMAIN files \ {c.out} :
                    FileExists(files', p) /\ files'[p] = files[p]
              /\ (DOMAIN files' \ DOMAIN files) \subseteq {c.out, c.pre.pv}
              /\ FileExists(files', c.pre.pv) /\ files'[c.pre.pv].kind = "video"
              /\ last_event' = "denoise" => files'[c.arg].kind = "audio"
              /\ processed_video' = c.pre.pv
              /\ transcript' = c.pre.tr
              /\ last_event' = "extract" =>
                    extracted_audio' = c.out /\ cleaned_audio' = c.pre.ca
              /\ last_event' = "denoise" =>
                    cleaned_audio' = c.out /\ extracted_audio' = c.pre.ea]_vars

\* C17 witness: denoise has succeeded and the video, the extracted audio and
\* the cleaned audio are three different files on disk
C17_Witness ==
    /\ StageSucceeded /\ last_event = "denoise"
    /\ Cardinality({processed_video, extracted_audio, cleaned_audio}) = 3
    /\ {processed_video, extracted_audio, cleaned_audio} \subseteq DOMAIN files
    /\ files[processed_video].kind = "video"
    /\ files[extracted_audio].kind = "audio"
    /\ files[cleaned_audio].kind = "clean"

====
